---- MODULE Spec2Model ----
(***************************************************************************)
(* A model of steamclipexporter: the clip-assembly pipeline of main.rs     *)
(* (enumeration of clip directories, segment location, stream assembly,    *)
(* mux, cleanup) and the helpers of utils.rs (sort_chunks,                 *)
(* parse_clip_string) and steam_api.rs (get_app_details).                  *)
(*                                                                         *)
(* Strings are sequences of one-character strings.  Unsigned integers of   *)
(* the program (u32, u64) are sequences of 16-bit limbs, least significant *)
(* first, so that they keep their full width.                              *)
(***************************************************************************)
EXTENDS Integers, Sequences, FiniteSets, TLC

----------------------------------------------------------------------------
(* Bounds of the model *)

\* longest list of chunk files handed to sort_chunks in SortSpec
MaxChunks == 3

\* number of clip directories under the root in Spec
MaxClips == 2

\* the chunk positions 1..MaxFaultAt at which an open or a copy may fail
MaxFaultAt == 2

\* a failing copy has written 0..MaxPartial bytes of its source
MaxPartial == 1

----------------------------------------------------------------------------
(* Characters and strings *)

DigitChars == <<"0", "1", "2", "3", "4", "5", "6", "7", "8", "9">>

IsDigit(c) == \E i \in 1..10 : DigitChars[i] = c

DigitVal(c) == CHOOSE d \in 0..9 : DigitChars[d + 1] = c

StartsWith(s, p) == Len(s) >= Len(p) /\ SubSeq(s, 1, Len(p)) = p

\* position of the last occurrence of c in s, 0 when there is none
LastIndexOf(s, c) ==
  IF \E i \in 1..Len(s) : s[i] = c
  THEN CHOOSE i \in 1..Len(s) : s[i] = c /\ \A j \in (i + 1)..Len(s) : s[j] # c
  ELSE 0

\* s.split(c).last(): the text after the last c, the whole of s without one
SplitLast(s, c) == SubSeq(s, LastIndexOf(s, c) + 1, Len(s))

\* s.split(c).collect(): the fields of s separated by c
RECURSIVE Split(_, _)
Split(s, c) ==
  IF \E i \in 1..Len(s) : s[i] = c
  THEN LET i == CHOOSE k \in 1..Len(s) : s[k] = c /\ \A j \in 1..(k - 1) : s[j] # c
       IN  <<SubSeq(s, 1, i - 1)>> \o Split(SubSeq(s, i + 1, Len(s)), c)
  ELSE <<s>>

\* s.trim_start_matches(p): p removed from the front as often as it matches
RECURSIVE TrimStartMatches(_, _)
TrimStartMatches(s, p) ==
  IF Len(p) > 0 /\ StartsWith(s, p)
  THEN TrimStartMatches(SubSeq(s, Len(p) + 1, Len(s)), p)
  ELSE s

----------------------------------------------------------------------------
(* Unsigned integers as limbs, str::parse *)

LimbBase == 2 ^ 16

U32Limbs == 2

U64Limbs == 4

Zero(n) == [i \in 1..n |-> 0]

\* limbs * 10 + carry from limb i on; the last element is the carry out
RECURSIVE MulAddFrom(_, _, _)
MulAddFrom(limbs, i, carry) ==
  IF i > Len(limbs)
  THEN <<carry>>
  ELSE LET t == limbs[i] * 10 + carry
       IN  <<t % LimbBase>> \o MulAddFrom(limbs, i + 1, t \div LimbBase)

None == [some |-> FALSE, val |-> <<>>]

Some(v) == [some |-> TRUE, val |-> v]

\* the digits of s from position i on accumulated into acc; None on a
\* character that is no digit or when the value leaves the n limbs
RECURSIVE ParseDigits(_, _, _)
ParseDigits(s, i, acc) ==
  IF i > Len(s)
  THEN Some(acc)
  ELSE IF ~IsDigit(s[i])
       THEN None
       ELSE LET r == MulAddFrom(acc, 1, DigitVal(s[i]))
            IN  IF r[Len(acc) + 1] > 0
                THEN None
                ELSE ParseDigits(s, i + 1, SubSeq(r, 1, Len(acc)))

\* s.parse::<uN>() for an unsigned type of n limbs: an optional '+', then at
\* least one digit, no overflow
ParseUnsigned(s, n) ==
  IF Len(s) = 0
  THEN None
  ELSE IF s[1] = "+"
       THEN (IF Len(s) = 1 THEN None ELSE ParseDigits(s, 2, Zero(n)))
       ELSE ParseDigits(s, 1, Zero(n))

\* the largest value in place of the default
UnwrapOrMax(opt, default) ==
  IF opt.some THEN opt.val ELSE [i \in 1..Len(default) |-> LimbBase - 1]

UnwrapOr(opt, default) == IF opt.some THEN opt.val ELSE default

\* a.cmp(&b) on unsigned integers of the same width: -1, 0 or 1
RECURSIVE CmpFrom(_, _, _)
CmpFrom(a, b, i) ==
  IF i = 0
  THEN 0
  ELSE IF a[i] < b[i] THEN -1
       ELSE IF a[i] > b[i] THEN 1
       ELSE CmpFrom(a, b, i - 1)

\* the operands of the comparison exchanged
CmpSwapped(a, b) == CmpFrom(b, a, Len(a))

Cmp(a, b) == CmpFrom(a, b, Len(a))

----------------------------------------------------------------------------
(* utils.rs: sort_chunks *)

\* the key the comparator of sort_chunks computes for one path
ChunkKey(name) == UnwrapOr(ParseUnsigned(SplitLast(name, "-"), U32Limbs), Zero(U32Limbs))

\* x put before the elements that compare equal to it
RECURSIVE InsertBeforeEqual(_, _)
InsertBeforeEqual(sorted, x) ==
  IF Len(sorted) = 0
  THEN <<x>>
  ELSE IF Cmp(ChunkKey(sorted[Len(sorted)]), ChunkKey(x)) # -1
       THEN InsertBeforeEqual(SubSeq(sorted, 1, Len(sorted) - 1), x)
              \o <<sorted[Len(sorted)]>>
       ELSE sorted \o <<x>>

\* x put into the sorted list after every element that does not compare
\* greater: the result of a stable sort
RECURSIVE InsertStable(_, _)
InsertStable(sorted, x) ==
  IF Len(sorted) = 0
  THEN <<x>>
  ELSE IF Cmp(ChunkKey(sorted[Len(sorted)]), ChunkKey(x)) = 1
       THEN InsertStable(SubSeq(sorted, 1, Len(sorted) - 1), x) \o <<sorted[Len(sorted)]>>
       ELSE sorted \o <<x>>

RECURSIVE SortFrom(_, _, _)
SortFrom(files, i, sorted) ==
  IF i > Len(files)
  THEN sorted
  ELSE SortFrom(files, i + 1, InsertStable(sorted, files[i]))

\* Vec::sort_by with the comparator of sort_chunks (a stable sort)
sort_chunks(files) == SortFrom(files, 1, <<>>)


----------------------------------------------------------------------------
(* Numbers back to text: the "{}" of format! on a u64 *)

IsZero(limbs) == \A i \in 1..Len(limbs) : limbs[i] = 0

\* limbs divided by 10 from limb i downwards with the remainder so far;
\* the result is the quotient's limbs i..1 (most significant first)
\* followed by the final remainder
RECURSIVE DivFrom(_, _, _)
DivFrom(limbs, i, rem) ==
  IF i = 0
  THEN <<rem>>
  ELSE LET cur == rem * LimbBase + limbs[i]
       IN  <<cur \div 10>> \o DivFrom(limbs, i - 1, cur % 10)

Quot10(limbs) ==
  LET r == DivFrom(limbs, Len(limbs), 0)
  IN  [i \in 1..Len(limbs) |-> r[Len(limbs) - i + 1]]

Rem10(limbs) == DivFrom(limbs, Len(limbs), 0)[Len(limbs) + 1]

RECURSIVE DecimalDigits(_)
DecimalDigits(limbs) ==
  IF IsZero(limbs)
  THEN <<>>
  ELSE DecimalDigits(Quot10(limbs)) \o <<DigitChars[Rem10(limbs) + 1]>>

\* Display of an unsigned integer: decimal, no leading zeros, "0" for zero
ToDecimal(limbs) == IF IsZero(limbs) THEN <<"0">> ELSE DecimalDigits(limbs)

----------------------------------------------------------------------------
(* utils.rs: parse_clip_string *)

ClipPrefix == <<"c", "l", "i", "p", "_">>

\* the three parse().unwrap() of parse_clip_string on the fields of the
\* directory name; panicked when a field is missing (index out of bounds)
\* or does not parse as u64 (unwrap of Err)
parse_clip_string(last_part) ==
  LET trimmed_part == TrimStartMatches(last_part, ClipPrefix)
      parts == Split(trimmed_part, "_")
      field(k) == IF Len(parts) >= k THEN ParseUnsigned(parts[k], U64Limbs) ELSE None
  IN  IF field(1).some /\ field(2).some /\ field(3).some
      THEN [panicked |-> FALSE, clip_number |-> field(1).val,
            date |-> field(2).val, time |-> field(3).val]
      ELSE [panicked |-> TRUE, clip_number |-> Zero(U64Limbs),
            date |-> Zero(U64Limbs), time |-> Zero(U64Limbs)]

----------------------------------------------------------------------------
(* The file system the program reads *)

INIT_VIDEO_FILE == <<"i", "n", "i", "t", "-", "s", "t", "r", "e", "a", "m", "0", ".", "m", "4", "s">>

INIT_AUDIO_FILE == <<"i", "n", "i", "t", "-", "s", "t", "r", "e", "a", "m", "1", ".", "m", "4", "s">>

VideoChunkPrefix == <<"c", "h", "u", "n", "k", "-", "s", "t", "r", "e", "a", "m", "0", "-">>

AudioChunkPrefix == <<"c", "h", "u", "n", "k", "-", "s", "t", "r", "e", "a", "m", "1", "-">>

BgPrefix == <<"b", "g", "_">>

\* a directory entry: a regular file with its bytes, or a subdirectory
File(n, d) == [name |-> n, is_file |-> TRUE, data |-> d]

Dir(n) == [name |-> n, is_file |-> FALSE, data |-> <<>>]

\* segment directories: the contents a bg_ directory may have
SegPlain ==
  { File(INIT_VIDEO_FILE, <<100, 101>>), File(INIT_AUDIO_FILE, <<200>>),
    File(VideoChunkPrefix \o <<"2">>, <<2>>), File(VideoChunkPrefix \o <<"1", "0">>, <<10>>),
    File(AudioChunkPrefix \o <<"1">>, <<21>>) }

SegExt ==
  { File(INIT_VIDEO_FILE, <<100, 101>>), File(INIT_AUDIO_FILE, <<200>>),
    File(VideoChunkPrefix \o <<"9", ".", "m", "4", "s">>, <<9>>), File(VideoChunkPrefix \o <<"1", "0", ".", "m", "4", "s">>, <<10>>),
    File(AudioChunkPrefix \o <<"1", ".", "m", "4", "s">>, <<21>>) }

SegNoAudioChunks ==
  { File(INIT_VIDEO_FILE, <<100, 101>>), File(INIT_AUDIO_FILE, <<200>>),
    File(VideoChunkPrefix \o <<"1">>, <<1>>), Dir(AudioChunkPrefix \o <<"1">>) }

SegNoAudioInit ==
  { File(INIT_VIDEO_FILE, <<100, 101>>),
    File(VideoChunkPrefix \o <<"1">>, <<1>>), File(AudioChunkPrefix \o <<"1">>, <<21>>) }

SegDirs == {SegPlain, SegExt, SegNoAudioChunks, SegNoAudioInit}

\* the children of a clip directory's video subdirectory, in the order
\* read_dir yields them; files is the content of a child directory
Child(n, d, f) == [name |-> n, is_dir |-> d, files |-> f]

VideoListings ==
  { <<>>,
    <<Child(<<"t", "h", "u", "m", "b", "s">>, TRUE, {})>>,
    <<Child(<<"b", "g", "_", "1">>, FALSE, {})>> }
  \cup { <<Child(<<"t", "h", "u", "m", "b", "s">>, TRUE, {}), Child(<<"b", "g", "_", "1">>, TRUE, d)>> : d \in SegDirs }

\* a clip directory's video subdirectory: absent, or present with children
VideoDirs ==
  { [is_dir |-> FALSE, children |-> <<>>] }
  \cup { [is_dir |-> TRUE, children |-> l] : l \in VideoListings }

\* what the process's working directory may hold
CwdDirs ==
  { {},
    { File(INIT_VIDEO_FILE, <<100, 101>>) },
    { File(INIT_VIDEO_FILE, <<100, 101>>), File(INIT_AUDIO_FILE, <<200>>) } }

\* names of the immediate subdirectories of the root
ClipNames ==
  { <<"c", "l", "i", "p", "_", "5", "7", "0", "_", "2", "0", "2", "4", "0", "8", "1", "5", "_", "0", "1", "5", "5", "1", "4">>,
    <<"c", "l", "i", "p", "_", "5", "7", "0", "_", "2", "0", "2", "4", "0", "8", "1", "5">>,
    <<"c", "l", "i", "p", "_", "x", "_", "2", "0", "2", "4", "0", "8", "1", "5", "_", "0", "1", "5", "5", "1", "4">> }

Exists(dir, n) == \E e \in dir : e.name = n

Entry(dir, n) == CHOOSE e \in dir : e.name = n

\* every order in which read_dir may yield the entries of a directory
RECURSIVE Listings(_)
Listings(dir) ==
  IF dir = {}
  THEN {<<>>}
  ELSE UNION { { <<e>> \o l : l \in Listings(dir \ {e}) } : e \in dir }

RECURSIVE Filter(_, _)
Filter(listing, prefix) ==
  IF Len(listing) = 0
  THEN <<>>
  ELSE (IF listing[1].is_file /\ StartsWith(listing[1].name, prefix)
        THEN <<listing[1]>> ELSE <<>>) \o Filter(Tail(listing), prefix)


----------------------------------------------------------------------------
(* steam_api.rs and get_game_name_from_id *)

Titles == { <<"D", "o", "t", "a", " ", "2">>, <<"M", "r", ".", " ", "X", ":", " ", "2">> }

\* what get_app_details returns: Err(reqwest::Error) from send, from
\* error_for_status_ref or from json, or Ok with the decoded object, of
\* which the model keeps the path  <steam_id> / data / name
Response(ok, err, entry, data, name, title) ==
  [ok |-> ok, err |-> err, has_entry |-> entry, has_data |-> data,
   has_name |-> name, name |-> title]

Responses ==
  { Response(FALSE, e, FALSE, FALSE, FALSE, <<>>) : e \in {"send", "status", "json"} }
  \cup { Response(TRUE, "", FALSE, FALSE, FALSE, <<>>),
         Response(TRUE, "", TRUE, FALSE, FALSE, <<>>),
         Response(TRUE, "", TRUE, TRUE, FALSE, <<>>) }
  \cup { Response(TRUE, "", TRUE, TRUE, TRUE, t) : t \in Titles }

NoResponse == Response(FALSE, "", FALSE, FALSE, FALSE, <<>>)

DefaultName == <<"c", "l", "i", "p">>

\* serde_json::Value::to_string of a JSON string: the text in quotes
JsonToString(str) == <<"\"">> \o str \o <<"\"">>

IllegalChars == {"/", "?", "<", ">", "\\", ":", "*", "|", "\""}

RECURSIVE TrimTrailing(_)
TrimTrailing(s) ==
  IF Len(s) > 0 /\ s[Len(s)] \in {".", " "}
  THEN TrimTrailing(SubSeq(s, 1, Len(s) - 1))
  ELSE s

\* sanitize_filename::sanitize: illegal characters removed, then trailing
\* dots and spaces
Sanitize(s) == TrimTrailing(SelectSeq(s, LAMBDA c : c \notin IllegalChars))

\* the default only for Err, not for a missing field
get_game_name_unchecked(details) ==
  IF details.ok
  THEN Sanitize(JsonToString(details.name))
  ELSE DefaultName

get_game_name_from_id(details) ==
  IF details.ok
  THEN IF details.has_entry /\ details.has_data /\ details.has_name
       THEN Sanitize(JsonToString(details.name))
       ELSE DefaultName
  ELSE DefaultName

----------------------------------------------------------------------------
(* validate_clip_directory *)

RECURSIVE FirstBg(_)
FirstBg(children) ==
  IF Len(children) = 0
  THEN None
  ELSE IF children[1].is_dir /\ StartsWith(children[1].name, BgPrefix)
       THEN Some(children[1])
       ELSE FirstBg(Tail(children))

\* Ok(Some(path)) for the first bg_ directory under video, Ok(None) without
\* one; Err when read_dir of the video directory fails
validate_clip_directory(video, read_dir_fails) ==
  IF video.is_dir
  THEN IF read_dir_fails
       THEN [ok |-> FALSE, found |-> None]
       ELSE [ok |-> TRUE, found |-> FirstBg(video.children)]
  ELSE [ok |-> TRUE, found |-> None]

----------------------------------------------------------------------------
(* concat_video_files and concat_audio_files *)

Fault(kind, at, part) == [kind |-> kind, at |-> at, part |-> part]

\* the I/O operation of one assembly that fails, if any
Faults ==
  { Fault(k, 0, 0) : k \in {"none", "create", "open_init", "read_dir"} }
  \cup { Fault("copy_init", 0, p) : p \in 0..MaxPartial }
  \cup { Fault("open_chunk", k, 0) : k \in 1..MaxFaultAt }
  \cup { Fault("copy_chunk", k, p) : k \in 1..MaxFaultAt, p \in 0..MaxPartial }

Min(a, b) == IF a < b THEN a ELSE b

\* the bytes a failing io::copy has appended
Partial(data, part) == SubSeq(data, 1, Min(part, Len(data)))

\* the loop over the sorted chunk files: File::open(path)?, io::copy(..)?
RECURSIVE AppendChunks(_, _, _, _, _)
AppendChunks(dir, names, k, out, fault) ==
  IF k > Len(names)
  THEN [ok |-> TRUE, file |-> out]
  ELSE LET data == Entry(dir, names[k]).data
       IN  IF fault.kind = "open_chunk" /\ fault.at = k
           THEN [ok |-> FALSE, file |-> out]
           ELSE IF fault.kind = "copy_chunk" /\ fault.at = k
                THEN [ok |-> FALSE, file |-> out \o Partial(data, fault.part)]
                ELSE AppendChunks(dir, names, k + 1, out \o data, fault)

Names(entries) == [i \in 1..Len(entries) |-> entries[i].name]

\* what fs::read_dir(dir).filter_map(..).collect() may give: the files of
\* dir with the prefix, in each order read_dir may yield them
Collected(dir, prefix) == { Names(Filter(l, prefix)) : l \in Listings(dir) }

\* one assembly: dir is the content of the directory the path names,
\* path_empty says that the path is "" (read_dir fails on it), input is
\* chunk_files as collected, old is the temporary file before the call.
\* The result of copying the init segment is not looked at.
Assemble(dir, path_empty, init_name, input, fault, old) ==
  LET created == Some(<<>>)
      init == IF Exists(dir, init_name) THEN Entry(dir, init_name).data ELSE <<>>
      with_init == IF fault.kind = "copy_init"
                   THEN Partial(init, fault.part)
                   ELSE init
      sorted == sort_chunks(input)
      appended == AppendChunks(dir, sorted, 1, with_init, fault)
  IN  IF fault.kind = "create"
      THEN [ok |-> FALSE, file |-> old, input |-> <<>>, chunk_files |-> <<>>]
      ELSE IF fault.kind = "open_init" \/ ~Exists(dir, init_name)
           THEN [ok |-> FALSE, file |-> created, input |-> <<>>, chunk_files |-> <<>>]
           ELSE IF fault.kind = "read_dir" \/ path_empty
                THEN [ok |-> FALSE, file |-> Some(with_init), input |-> <<>>,
                      chunk_files |-> <<>>]
                ELSE [ok |-> appended.ok, file |-> Some(appended.file),
                      input |-> input, chunk_files |-> sorted]

concat_video_files(dir, path_empty, input, fault, old) ==
  Assemble(dir, path_empty, INIT_VIDEO_FILE, input, fault, old)

concat_audio_files(dir, path_empty, input, fault, old) ==
  Assemble(dir, path_empty, INIT_AUDIO_FILE, input, fault, old)

----------------------------------------------------------------------------
(* join_video_audio: the destination *)

Mp4 == <<"m", "p", "4">>

\* Path::with_extension on a file name: the text after the last '.' (when
\* that '.' is not the first character) is replaced by the extension
WithExtension(file_name, ext) ==
  LET dot == LastIndexOf(file_name, ".")
      stem == IF dot > 1 THEN SubSeq(file_name, 1, dot - 1) ELSE file_name
  IN  stem \o <<".">> \o ext

OutputDirs == { None, Some(<<"o", "u", "t">>) }

Destination(output_dir, file_name) ==
  [dir |-> output_dir, file |-> WithExtension(file_name, Mp4)]

\* how the ffmpeg subprocess ends: it cannot be spawned, copying its
\* output to stdout fails, or it exits with a status
MuxOutcomes == {"spawn_failed", "stdout_failed", "exit_zero", "exit_nonzero"}


----------------------------------------------------------------------------
(* The state *)

VARIABLES
  pc,                     \* where main is
  output_path,            \* main: the --output argument
  subdirectories,         \* main: what get_subdirectories returned
  idx,                    \* main: how many directories the for loop has taken
  directory,              \* export_clip_at_directory: its argument
  clip,                   \* export_clip_at_directory: (steam_id, date, time)
  app_details,            \* what get_app_details returned for this clip
  game_name,              \* export_clip_at_directory
  video_clips_directory,  \* export_clip_at_directory; <<>> is the empty path
  seg,                    \* the content of the directory that path names
  output_file_name,       \* export_clip_at_directory
  tmp,                    \* the temporary directory and its two files
  chunk_input,            \* concat_*_files: chunk_files as collected
  chunk_files,            \* concat_*_files: chunk_files after sort_chunks
  result,                 \* what the last call of concat_m4s_files returned
  mux_calls,              \* ffmpeg subprocesses spawned for the current clip
  outputs,                \* the destination files ffmpeg has written
  io_failed,              \* an I/O operation of this clip's assembly returned Err
  console                 \* what has been printed since the loop took up a clip

vars ==
  <<pc, output_path, subdirectories, idx, directory, clip, app_details,
    game_name, video_clips_directory, seg, output_file_name, tmp,
    chunk_input, chunk_files, result, mux_calls, outputs, io_failed, console>>

NoClip == [steam_id |-> Zero(U64Limbs), date |-> Zero(U64Limbs), time |-> Zero(U64Limbs)]

TmpEmpty == [exists |-> TRUE, video |-> None, audio |-> None]

\* the TempDir dropped: the directory and what is in it are removed
TmpDropped == [exists |-> FALSE, video |-> None, audio |-> None]

\* only the video file removed
cleanupVideoOnly(t) == [t EXCEPT !.video = None]

\* fs::remove_file on both temporary files; neither result is looked at
cleanup(t) == [t EXCEPT !.video = None, !.audio = None]

BoundedSeqs(S, n) == UNION { [1..k -> S] : k \in 0..n }

Space == <<" ">>

\* format!("{} {} {}", game_name, date, time)
FormatName(name, date, time) ==
  name \o Space \o ToDecimal(date) \o Space \o ToDecimal(time)

Init ==
  /\ pc = "main"
  /\ output_path \in OutputDirs
  /\ subdirectories = <<>>
  /\ idx = 0
  /\ directory = <<>>
  /\ clip = NoClip
  /\ app_details = NoResponse
  /\ game_name = <<>>
  /\ video_clips_directory = <<>>
  /\ seg = {}
  /\ output_file_name = <<>>
  /\ tmp = TmpEmpty
  /\ chunk_input = <<>>
  /\ chunk_files = <<>>
  /\ result = "none"
  /\ mux_calls = 0
  /\ outputs = {}
  /\ io_failed = FALSE
  /\ console = <<"Creating temp directory">>

\* the locals of export_clip_at_directory and of what it calls go out of
\* scope
Locals ==
  <<directory, clip, app_details, game_name, video_clips_directory, seg,
    output_file_name, chunk_input, chunk_files, io_failed>>

DropLocals ==
  /\ directory' = <<>>
  /\ clip' = NoClip
  /\ app_details' = NoResponse
  /\ game_name' = <<>>
  /\ video_clips_directory' = <<>>
  /\ seg' = {}
  /\ output_file_name' = <<>>
  /\ chunk_input' = <<>>
  /\ chunk_files' = <<>>
  /\ io_failed' = FALSE

\* println!: the messages are appended to the console
Println(messages) == console' = console \o messages

\* an error handed on to main, which stops
ReturnOrStop(r) ==
  /\ result' = r
  /\ pc' = IF r \in {"not_found", "io_error", "mux_failed"} THEN "done" ELSE "loop"
  /\ DropLocals

\* concat_m4s_files returns r, export_clip_at_directory drops it and
\* returns to the loop of main
Return(r) ==
  /\ result' = r
  /\ pc' = "loop"
  /\ DropLocals

----------------------------------------------------------------------------
(* main *)

\* main, the call of get_subdirectories: the names of the directories
\* under the root, or an error that main prints before it returns
GetSubdirectories ==
  /\ pc = "main"
  /\ \/ /\ \E subs \in BoundedSeqs(ClipNames, MaxClips) : subdirectories' = subs
        /\ pc' = "loop"
        /\ Println(<<"Processing clips">>)
     \/ /\ subdirectories' = <<>>
        /\ pc' = "done"
        /\ Println(<<"Error fetching subdirectories">>)
  /\ UNCHANGED <<output_path, idx, Locals, tmp, result, mux_calls, outputs>>

\* one turn of the for loop up to the call of parse_clip_string
NextClip ==
  /\ pc = "loop"
  /\ idx < Len(subdirectories)
  /\ idx' = idx + 1
  /\ tmp' = cleanup(tmp)
  /\ directory' = subdirectories[idx + 1]
  /\ mux_calls' = 0
  /\ pc' = "parse"
  /\ console' = <<"Cleaning up", "Processing directory">>
  /\ UNCHANGED <<output_path, result, subdirectories, clip, app_details, game_name,
                 video_clips_directory, seg, output_file_name, chunk_input,
                 chunk_files, outputs, io_failed>>

\* the loop is over: main prints "Done"
Done ==
  /\ pc = "loop"
  /\ idx = Len(subdirectories)
  /\ pc' = "done"
  /\ Println(<<"Done">>)
  /\ UNCHANGED <<output_path, subdirectories, idx, Locals, tmp, result,
                 mux_calls, outputs>>

\* main returns, tmp_dir is dropped
Exit ==
  /\ pc = "done"
  /\ pc' = "exited"
  /\ tmp' = TmpDropped
  /\ UNCHANGED <<output_path, subdirectories, idx, Locals, result, mux_calls,
                 outputs, console>>

----------------------------------------------------------------------------
(* export_clip_at_directory *)

\* utils::parse_clip_string(directory); a panic unwinds main, which drops
\* tmp_dir, and ends the process
ParseClipString ==
  /\ pc = "parse"
  /\ LET r == parse_clip_string(directory)
     IN  IF r.panicked
         THEN /\ pc' = "panicked"
              /\ tmp' = TmpDropped
              /\ Println(<<"parts", "panicked">>)
              /\ UNCHANGED clip
         ELSE /\ pc' = "fetch"
              /\ clip' = [steam_id |-> r.clip_number, date |-> r.date, time |-> r.time]
              /\ Println(<<"parts">>)
              /\ UNCHANGED tmp
  /\ UNCHANGED <<output_path, subdirectories, idx, directory, app_details,
                 game_name, video_clips_directory, seg, output_file_name,
                 chunk_input, chunk_files, result, mux_calls, outputs, io_failed>>

\* the lookup left out: the locator runs on a clip that has no title yet
GetAppDetailsSkipped ==
  /\ pc = "fetch"
  /\ pc' = "validate"
  /\ game_name' = DefaultName
  /\ UNCHANGED <<output_path, subdirectories, idx, directory, clip, app_details,
                 video_clips_directory, seg, output_file_name, tmp,
                 chunk_input, chunk_files, result, mux_calls, outputs, io_failed,
                 console>>

\* steam_api::get_app_details(steam_id)
GetAppDetails ==
  /\ pc = "fetch"
  /\ \E r \in Responses : app_details' = r
  /\ pc' = "name"
  /\ Println(<<"Fetching app details">>)
  /\ UNCHANGED <<output_path, subdirectories, idx, directory, clip, game_name,
                 video_clips_directory, seg, output_file_name, tmp,
                 chunk_input, chunk_files, result, mux_calls, outputs, io_failed>>

\* the match of get_game_name_from_id on what get_app_details returned
GetGameNameFromId ==
  /\ pc = "name"
  /\ game_name' = get_game_name_from_id(app_details)
  /\ pc' = "validate"
  /\ Println(IF /\ app_details.ok
                 /\ app_details.has_entry
                 /\ app_details.has_data
                 /\ app_details.has_name
              THEN <<>>
              ELSE <<"Error fetching app details">>)
  /\ UNCHANGED <<output_path, subdirectories, idx, directory, clip, app_details,
                 video_clips_directory, seg, output_file_name, tmp,
                 chunk_input, chunk_files, result, mux_calls, outputs, io_failed>>

\* validate_clip_directory(..).map(..).unwrap_or_default(), then the
\* format! of output_file_name.  Without a bg_ directory the path is ""
\* and names the working directory.
ValidateClipDirectory ==
  /\ pc = "validate"
  /\ \E video \in VideoDirs, read_dir_fails \in BOOLEAN, cwd \in CwdDirs :
       LET r == validate_clip_directory(video, read_dir_fails)
       IN  IF r.ok /\ r.found.some
           THEN /\ video_clips_directory' = r.found.val.name
                /\ seg' = r.found.val.files
           ELSE /\ video_clips_directory' = <<>>
                /\ seg' = cwd
  /\ output_file_name' = FormatName(game_name, clip.date, clip.time)
  /\ pc' = "concat"
  /\ Println(<<"Clips directory">>)
  /\ UNCHANGED <<output_path, subdirectories, idx, directory, clip,
                 app_details, game_name, tmp, chunk_input, chunk_files,
                 result, mux_calls, outputs, io_failed>>

----------------------------------------------------------------------------
(* concat_m4s_files *)

\* the test that both init files exist; without them Err(NotFound)
ConcatM4sFiles ==
  /\ pc = "concat"
  /\ IF Exists(seg, INIT_VIDEO_FILE) /\ Exists(seg, INIT_AUDIO_FILE)
     THEN /\ pc' = "video"
          /\ UNCHANGED <<Locals, result>>
     ELSE Return("not_found")
  /\ Println(<<"Starting concat">>)
  /\ UNCHANGED <<output_path, subdirectories, idx, tmp, mux_calls, outputs>>

\* concat_video_files(init_video_file_path, dir, &tmp_dir)?
ConcatVideoFiles ==
  /\ pc = "video"
  /\ \E input \in Collected(seg, VideoChunkPrefix), fault \in Faults :
       LET r == concat_video_files(seg, video_clips_directory = <<>>, input,
                                   fault, tmp.video)
       IN  /\ tmp' = [tmp EXCEPT !.video = r.file]
           /\ IF r.ok
              THEN /\ pc' = "audio"
                   /\ chunk_input' = r.input
                   /\ chunk_files' = r.chunk_files
                   /\ io_failed' = (io_failed \/ fault.kind = "copy_init")
                   /\ Println(<<"Processing video", "Finished concatting video">>)
                   /\ UNCHANGED <<directory, clip, app_details, game_name,
                                  video_clips_directory, seg, output_file_name,
                                  result>>
              ELSE /\ Return("io_error")
                   /\ Println(<<"Processing video">>)
  /\ UNCHANGED <<output_path, subdirectories, idx, mux_calls, outputs>>

\* concat_audio_files(init_audio_file_path, dir, &tmp_dir)?
ConcatAudioFiles ==
  /\ pc = "audio"
  /\ \E input \in Collected(seg, AudioChunkPrefix), fault \in Faults :
       LET r == concat_audio_files(seg, video_clips_directory = <<>>, input,
                                   fault, tmp.audio)
       IN  /\ tmp' = [tmp EXCEPT !.audio = r.file]
           /\ IF r.ok
              THEN /\ pc' = "join"
                   /\ chunk_input' = r.input
                   /\ chunk_files' = r.chunk_files
                   /\ io_failed' = (io_failed \/ fault.kind = "copy_init")
                   /\ Println(<<"Processing audio", "Finished concatting audio">>)
                   /\ UNCHANGED <<directory, clip, app_details, game_name,
                                  video_clips_directory, seg, output_file_name,
                                  result>>
              ELSE /\ Return("io_error")
                   /\ Println(<<"Processing audio">>)
  /\ UNCHANGED <<output_path, subdirectories, idx, mux_calls, outputs>>

\* join_video_audio(&tmp_dir, output_file_name, output_dir)?: ffmpeg is
\* spawned on the two temporary files and waited for; a process that
\* fails may or may not have written its destination
JoinVideoAudio ==
  /\ pc = "join"
  /\ LET destination == Destination(output_path, output_file_name)
     IN  \E outcome \in MuxOutcomes, written \in BOOLEAN :
           /\ mux_calls' = IF outcome = "spawn_failed" THEN mux_calls ELSE mux_calls + 1
           /\ outputs' = IF outcome = "exit_zero" \/ (outcome # "spawn_failed" /\ written)
                         THEN outputs \cup {destination}
                         ELSE outputs
           /\ IF outcome = "exit_zero"
              THEN /\ pc' = "cleanup"
                   /\ UNCHANGED <<Locals, result>>
              ELSE Return(IF outcome = "exit_nonzero" THEN "mux_failed" ELSE "io_error")
           /\ Println(<<"Merging using ffmpeg", "Destination file">>
                    \o IF outcome = "spawn_failed" THEN <<>> ELSE <<"ffmpeg output">>)
  /\ UNCHANGED <<output_path, subdirectories, idx, tmp>>

\* cleanup(&tmp_dir) of concat_m4s_files, which then returns Ok(())
ConcatCleanup ==
  /\ pc = "cleanup"
  /\ tmp' = cleanup(tmp)
  /\ Return("ok")
  /\ Println(<<"Cleaning up">>)
  /\ UNCHANGED <<output_path, subdirectories, idx, mux_calls, outputs>>

Next ==
  \/ GetSubdirectories
  \/ NextClip
  \/ Done
  \/ Exit
  \/ ParseClipString
  \/ GetAppDetails
  \/ GetGameNameFromId
  \/ ValidateClipDirectory
  \/ ConcatM4sFiles
  \/ ConcatVideoFiles
  \/ ConcatAudioFiles
  \/ JoinVideoAudio
  \/ ConcatCleanup

Spec == Init /\ [][Next]_vars


----------------------------------------------------------------------------
(* sort_chunks on its own: every list of up to MaxChunks names *)

SortNames ==
  { VideoChunkPrefix \o sfx :
      sfx \in { <<"1">>, <<"2">>, <<"9">>, <<"1", "0">>, <<"4", "2", "9", "4", "9", "6", "7", "2", "9", "5">>, <<"4", "2", "9", "4", "9", "6", "7", "2", "9", "6">>,
                <<"9", ".", "m", "4", "s">>, <<"1", "0", ".", "m", "4", "s">>, <<"x">> } }

SortInit ==
  /\ pc = "sort"
  /\ chunk_input \in BoundedSeqs(SortNames, MaxChunks)
  /\ chunk_files = <<>>
  /\ output_path = None
  /\ subdirectories = <<>>
  /\ idx = 0
  /\ directory = <<>>
  /\ clip = NoClip
  /\ app_details = NoResponse
  /\ game_name = <<>>
  /\ video_clips_directory = <<>>
  /\ seg = {}
  /\ output_file_name = <<>>
  /\ tmp = TmpEmpty
  /\ result = "none"
  /\ mux_calls = 0
  /\ outputs = {}
  /\ io_failed = FALSE
  /\ console = <<>>

\* utils::sort_chunks(&mut chunk_files)
SortChunks ==
  /\ pc = "sort"
  /\ chunk_files' = sort_chunks(chunk_input)
  /\ pc' = "sorted"
  /\ UNCHANGED <<output_path, subdirectories, idx, directory, clip,
                 app_details, game_name, video_clips_directory, seg,
                 output_file_name, tmp, chunk_input, result, mux_calls,
                 outputs, io_failed, console>>

SortNext == SortChunks

SortSpec == SortInit /\ [][SortNext]_vars


----------------------------------------------------------------------------
(* Properties *)

\* the positions of main inside export_clip_at_directory
ClipStages ==
  {"parse", "fetch", "name", "validate", "concat", "video", "audio", "join",
   "cleanup"}

\* the results of concat_m4s_files that are failures of the clip
Failures == {"not_found", "io_error", "mux_failed"}

\* C1: a clip that fails (segment directory not found, init segments
\* missing, read/write error, mux exiting non-zero) hands control back to
\* the loop of main, the loop takes up the next directory of the list, and
\* "Done" is reached only when every directory has been taken up; the only
\* way a clip ends without returning to the loop is the panic of
\* parse_clip_string.
C1_FailureContinues ==
  /\ [](pc \in {"done", "exited"} => idx = Len(subdirectories))
  /\ [][ /\ (pc \in ClipStages /\ pc' \notin ClipStages)
              => (pc' = "loop" \/ (pc = "parse" /\ pc' = "panicked"))
         /\ (result' \in Failures /\ result' # result) => pc' = "loop"
         /\ (pc = "loop" /\ result \in Failures /\ idx < Len(subdirectories))
              => (pc' = "parse" /\ idx' = idx + 1
                  /\ directory' = subdirectories[idx + 1]) ]_vars

\* a later clip is in its assembly after an earlier clip's mux failed
C1_Witness ==
  /\ pc = "video"
  /\ idx = 2
  /\ result = "mux_failed"

\* C2: once the processing of a clip has ended, whatever its outcome,
\* neither temporary file exists.
C2_CleanAfterEveryClip ==
  (pc \in {"loop", "done"} /\ idx > 0) => (tmp.video = None /\ tmp.audio = None)

\* C3: when stream assembly starts for a clip, neither temporary file
\* exists, whatever happened to the clips before.
C3_CleanAtAssemblyStart ==
  pc \in {"concat", "video"} => (tmp.video = None /\ tmp.audio = None)

\* assembly starts for a clip after a clip whose mux failed
C3_Witness ==
  /\ pc = "video"
  /\ idx > 1
  /\ result = "mux_failed"
  /\ tmp.exists

IsDecimal(s) == Len(s) > 0 /\ \A i \in 1..Len(s) : IsDigit(s[i])

RECURSIVE StripZeros(_)
StripZeros(s) == IF Len(s) > 1 /\ s[1] = "0" THEN StripZeros(Tail(s)) ELSE s

RECURSIVE DigitsLeq(_, _, _)
DigitsLeq(a, b, i) ==
  IF i > Len(a)
  THEN TRUE
  ELSE IF DigitVal(a[i]) < DigitVal(b[i]) THEN TRUE
       ELSE IF DigitVal(a[i]) > DigitVal(b[i]) THEN FALSE
       ELSE DigitsLeq(a, b, i + 1)

\* s <= t for two decimal numerals, as numbers
NumLeq(s, t) ==
  LET a == StripZeros(s)
      b == StripZeros(t)
  IN  Len(a) < Len(b) \/ (Len(a) = Len(b) /\ DigitsLeq(a, b, 1))

U32MaxText == <<"4", "2", "9", "4", "9", "6", "7", "2", "9", "5">>

Suffix(name) == SplitLast(name, "-")

NonDecreasing(files) ==
  \A i, j \in 1..Len(files) : i < j => NumLeq(Suffix(files[i]), Suffix(files[j]))

\* C4 as stated: a list of names whose text after the last '-' is a
\* decimal integer is left by sort_chunks with those integers
\* non-decreasing.
C4_NumericOrder ==
  (pc = "sorted" /\ \A i \in 1..Len(chunk_input) : IsDecimal(Suffix(chunk_input[i])))
    => NonDecreasing(chunk_files)

\* C4 amended: the same for decimal integers that fit 32 bits unsigned
\* (at most 4294967295).
C4_NumericOrderU32 ==
  (pc = "sorted"
   /\ \A i \in 1..Len(chunk_input) :
        /\ IsDecimal(Suffix(chunk_input[i]))
        /\ NumLeq(Suffix(chunk_input[i]), U32MaxText))
    => NonDecreasing(chunk_files)

\* the suffixes 2, 10, 1 have been put into the order 1, 2, 10
C4_Witness ==
  /\ pc = "sorted"
  /\ chunk_input = << VideoChunkPrefix \o <<"2">>, VideoChunkPrefix \o <<"1", "0">>,
                      VideoChunkPrefix \o <<"1">> >>
  /\ chunk_files = << VideoChunkPrefix \o <<"1">>, VideoChunkPrefix \o <<"2">>,
                      VideoChunkPrefix \o <<"1", "0">> >>

\* the file name without its extension
Stem(name) ==
  LET dot == LastIndexOf(name, ".")
  IN  IF dot > 1 THEN SubSeq(name, 1, dot - 1) ELSE name

HasExtension(name) == LastIndexOf(name, ".") > 1

\* C5: chunk files that carry an extension are ordered ascending by the
\* integer after the last '-' of the file name stem.
C5_StemKeyOrder ==
  (pc = "sorted"
   /\ \A i \in 1..Len(chunk_input) :
        /\ HasExtension(chunk_input[i])
        /\ IsDecimal(Suffix(Stem(chunk_input[i]))))
    => \A i, j \in 1..Len(chunk_files) :
         i < j => NumLeq(Suffix(Stem(chunk_files[i])), Suffix(Stem(chunk_files[j])))

RECURSIVE ConcatData(_, _)
ConcatData(dir, names) ==
  IF Len(names) = 0
  THEN <<>>
  ELSE Entry(dir, names[1]).data \o ConcatData(dir, Tail(names))

\* the names of the files of dir that belong to the stream with the prefix
StreamChunks(dir, prefix) ==
  { e.name : e \in { f \in dir : f.is_file /\ StartsWith(f.name, prefix) } }

\* file holds the init segment, then every chunk of the stream once, in the
\* order of chunk_files, and nothing else
ExactlyAssembled(file, init_name, prefix) ==
  /\ file.some
  /\ { chunk_files[i] : i \in 1..Len(chunk_files) } = StreamChunks(seg, prefix)
  /\ Len(chunk_files) = Cardinality(StreamChunks(seg, prefix))
  /\ file.val = Entry(seg, init_name).data \o ConcatData(seg, chunk_files)

\* C6: when the assembly of a stream has succeeded, its temporary file is
\* the stream's init segment followed by the stream's chunks, each once, in
\* sequencer order, and nothing else.
C6_AssembledBytes ==
  /\ pc = "audio" => ExactlyAssembled(tmp.video, INIT_VIDEO_FILE, VideoChunkPrefix)
  /\ pc = "join" => ExactlyAssembled(tmp.audio, INIT_AUDIO_FILE, AudioChunkPrefix)

\* C7: for a clip without a video subdirectory or without a bg_ directory
\* (the locator's path is empty), whatever the working directory holds, no
\* step after the locator creates a temporary file, spawns ffmpeg or
\* writes an output.
C7_SkippedTouchesNothing ==
  [][ (video_clips_directory = <<>> /\ pc \in {"concat", "video", "audio", "join"})
        => /\ tmp' = tmp
           /\ mux_calls' = mux_calls
           /\ outputs' = outputs ]_vars

\* C8: a directory name that parse_clip_string cannot parse fails that clip
\* only: control returns to the loop of main.
C8_ParseFailureIsLocal ==
  [][ (pc = "parse" /\ parse_clip_string(directory).panicked) => pc' = "loop" ]_vars

\* get_app_details failed, or the object lacks the entry, data or name
LookupFailed(details) ==
  ~details.ok \/ ~details.has_entry \/ ~details.has_data \/ ~details.has_name

\* C9: after a failed title lookup the name is "clip", the output file name
\* is built from it, and the lookup ends neither the clip nor the run: the
\* clip goes on to the locator.
C9_LookupFailureDefaults ==
  /\ []( (LookupFailed(app_details)
          /\ pc \in {"validate", "concat", "video", "audio", "join", "cleanup"})
         => game_name = DefaultName )
  /\ []( (LookupFailed(app_details)
          /\ pc \in {"concat", "video", "audio", "join", "cleanup"})
         => output_file_name = DefaultName \o Space \o ToDecimal(clip.date)
                                 \o Space \o ToDecimal(clip.time) )
  /\ [][ (pc = "fetch" => pc' = "name") /\ (pc = "name" => pc' = "validate") ]_vars

\* a clip whose lookup failed has been muxed into its destination
C9_Witness ==
  /\ pc = "cleanup"
  /\ LookupFailed(app_details)
  /\ game_name = DefaultName
  /\ mux_calls = 1
  /\ Destination(output_path, output_file_name) \in outputs

\* an init segment is missing, or a stream has no chunk file
SegmentsMissing(dir) ==
  \/ ~Exists(dir, INIT_VIDEO_FILE)
  \/ ~Exists(dir, INIT_AUDIO_FILE)
  \/ StreamChunks(dir, VideoChunkPrefix) = {}
  \/ StreamChunks(dir, AudioChunkPrefix) = {}

\* C10: with an init segment missing or a stream without chunk files,
\* assembly fails for the clip: ffmpeg is not spawned and no output is
\* written.
C10_SegmentsMissingNoMux ==
  [][ (pc \in {"concat", "video", "audio", "join"} /\ SegmentsMissing(seg))
        => (mux_calls' = mux_calls /\ outputs' = outputs /\ pc' # "cleanup") ]_vars

\* C11: once a read or write of the clip's assembly has failed (here: a copy
\* whose Result came back Err), the clip is given up: from then on the muxer is
\* not spawned for it and no destination file is written for it.
C11_IoFailureAborts ==
  [][io_failed => (mux_calls' <= mux_calls /\ outputs' = outputs)]_vars

\* the messages a clip that completes prints as well
CompletedMessages ==
  {"Cleaning up", "Processing directory", "parts", "Fetching app details",
   "Error fetching app details", "Clips directory", "Starting concat",
   "Processing video", "Finished concatting video", "Processing audio",
   "Finished concatting audio", "Merging using ffmpeg", "Destination file",
   "ffmpeg output"}

\* C12: when a clip has failed (segments not found, I/O failure, mux exiting
\* non-zero) and control is back in the loop, before the next clip starts, the
\* console holds a message for the failure: one that a completed clip does not
\* print.
C12_FailureReported ==
  (pc = "loop" /\ idx > 0 /\ result \in Failures)
    => \E i \in DOMAIN console : console[i] \notin CompletedMessages

\* C13: when the mux of a clip succeeds, the file it has written is
\* <output_dir>/<name>.mp4 (or <name>.mp4 in the working directory when no
\* output directory was given), where <name> is the whole output name
\* "<resolved-name> <date> <time>" with ".mp4" appended, nothing dropped.
C13_DestinationKeepsName ==
  [][ (pc = "join" /\ pc' = "cleanup")
        => [dir |-> output_path, file |-> output_file_name \o <<".">> \o Mp4]
             \in outputs' ]_vars

\* the fields of a directory name clip_<id>_<date>_<time>, as written
NameFields(name) ==
  IF StartsWith(name, ClipPrefix)
  THEN Split(SubSeq(name, Len(ClipPrefix) + 1, Len(name)), "_")
  ELSE <<>>

NumericClipName(name) ==
  /\ Len(NameFields(name)) = 3
  /\ \A k \in 1..3 : IsDecimal(NameFields(name)[k])

\* C14: for a directory clip_<id>_<date>_<time> with numeric fields the
\* parsed identifier, date and time are the numbers written there, and the
\* output name is "<resolved-name> <date> <time>" with the date and the time
\* exactly as written in the directory name, digit for digit.
C14_DateTimeAsWritten ==
  (pc \in {"concat", "video", "audio", "join", "cleanup"}
     /\ NumericClipName(directory))
    => /\ ToDecimal(clip.steam_id) = StripZeros(NameFields(directory)[1])
       /\ ToDecimal(clip.date) = StripZeros(NameFields(directory)[2])
       /\ ToDecimal(clip.time) = StripZeros(NameFields(directory)[3])
       /\ output_file_name = game_name \o Space \o NameFields(directory)[2]
                               \o Space \o NameFields(directory)[3]

\* the numeral of a suffix: str::parse accepts one leading '+'
Numeral(sfx) == IF Len(sfx) > 0 /\ sfx[1] = "+" THEN Tail(sfx) ELSE sfx

\* the suffix after the last '-' is a decimal integer of at most 32 bits
Parsable(name) ==
  /\ IsDecimal(Numeral(Suffix(name)))
  /\ NumLeq(Numeral(Suffix(name)), U32MaxText)

PositiveKey(name) ==
  Parsable(name) /\ StripZeros(Numeral(Suffix(name))) # <<"0">>

\* how often x occurs in the list
Count(files, x) == Cardinality({ i \in 1..Len(files) : files[i] = x })

IsPermutation(a, b) ==
  /\ Len(a) = Len(b)
  /\ \A i \in 1..Len(a) : Count(a, a[i]) = Count(b, a[i])

\* C15: the output of sort_chunks is a permutation of its input (no file is
\* dropped, duplicated or rejected), every file whose suffix after the last
\* '-' does not parse gets key 0, and each such file stands before every file
\* whose key is greater than 0.
C15_PermutationUnparsedFirst ==
  pc = "sorted"
    => /\ IsPermutation(chunk_input, chunk_files)
       /\ \A i \in 1..Len(chunk_files) :
            ~Parsable(chunk_files[i])
              => /\ ChunkKey(chunk_files[i]) = Zero(U32Limbs)
                 /\ \A j \in 1..Len(chunk_files) :
                      PositiveKey(chunk_files[j]) => i < j

\* the names with suffixes 2, x, 1 have been put into the order x, 1, 2
C15_Witness ==
  /\ pc = "sorted"
  /\ chunk_input = << VideoChunkPrefix \o <<"2">>, VideoChunkPrefix \o <<"x">>,
                      VideoChunkPrefix \o <<"1">> >>
  /\ chunk_files = << VideoChunkPrefix \o <<"x">>, VideoChunkPrefix \o <<"1">>,
                      VideoChunkPrefix \o <<"2">> >>

\* two names have equal keys: both suffixes do not parse or are zero, or
\* both parse to the same number
EqualKeys(a, b) ==
  IF PositiveKey(a) /\ PositiveKey(b)
  THEN StripZeros(Numeral(Suffix(a))) = StripZeros(Numeral(Suffix(b)))
  ELSE ~PositiveKey(a) /\ ~PositiveKey(b)

\* C18: sort_chunks is stable: the files whose key equals that of a given
\* file appear in the output in the order in which the input lists them.
C18_Stable ==
  pc = "sorted"
    => \A k \in 1..Len(chunk_input) :
         SelectSeq(chunk_files, LAMBDA f : EqualKeys(f, chunk_input[k]))
           = SelectSeq(chunk_input, LAMBDA f : EqualKeys(f, chunk_input[k]))

\* two names of key 0 with one of key 1 between them: the two have kept
\* their order 10.m4s, x
C18_Witness ==
  /\ pc = "sorted"
  /\ chunk_input = << VideoChunkPrefix \o <<"1", "0", ".", "m", "4", "s">>, VideoChunkPrefix \o <<"1">>,
                      VideoChunkPrefix \o <<"x">> >>
  /\ chunk_files = << VideoChunkPrefix \o <<"1", "0", ".", "m", "4", "s">>, VideoChunkPrefix \o <<"x">>,
                      VideoChunkPrefix \o <<"1">> >>

\* the stage a step taken at this position belongs to, numbered in the
\* order the claim gives: location, assembly, naming, mux, cleanup
ClaimedRank(at) ==
  CASE at = "validate" -> 1
    [] at \in {"concat", "video", "audio"} -> 2
    [] at \in {"fetch", "name"} -> 3
    [] at = "join" -> 4
    [] at = "cleanup" -> 5
    [] OTHER -> 0

\* the same, numbered naming, location, assembly, mux, cleanup
StageRank(at) ==
  CASE at \in {"fetch", "name"} -> 1
    [] at = "validate" -> 2
    [] at \in {"concat", "video", "audio"} -> 3
    [] at = "join" -> 4
    [] at = "cleanup" -> 5
    [] OTHER -> 0

FullyAssembled(file, init_name, prefix) ==
  /\ file.some
  /\ Exists(seg, init_name)
  /\ \E order \in Collected(seg, prefix) :
       file.val = Entry(seg, init_name).data \o ConcatData(seg, order)

\* C17: when the muxer is spawned for a clip, tmp_video.mp4 and tmp_audio.mp4
\* are complete assemblies of that clip (the init segment and all chunks of
\* the clip's stream, no bytes of an earlier clip), and the muxer has not
\* been spawned for the clip before.
C17_MuxOnCompleteStreams ==
  [][ mux_calls' > mux_calls
        => /\ mux_calls = 0
           /\ FullyAssembled(tmp.video, INIT_VIDEO_FILE, VideoChunkPrefix)
           /\ FullyAssembled(tmp.audio, INIT_AUDIO_FILE, AudioChunkPrefix) ]_vars

\* an assembly in which no I/O operation fails
NoFault == Fault("none", 0, 0)

\* C19: assembling a stream of the clip's segment directory gives the same
\* bytes for every order in which the directory listing may return the
\* chunk files.
C19_ListingOrderIrrelevant ==
  (pc = "video" /\ video_clips_directory # <<>>)
    => /\ \A a, b \in Collected(seg, VideoChunkPrefix) :
            concat_video_files(seg, FALSE, a, NoFault, tmp.video).file
              = concat_video_files(seg, FALSE, b, NoFault, tmp.video).file
       /\ \A a, b \in Collected(seg, AudioChunkPrefix) :
            concat_audio_files(seg, FALSE, a, NoFault, tmp.audio).file
              = concat_audio_files(seg, FALSE, b, NoFault, tmp.audio).file

\* C20: when the run has ended, every subdirectory of the root has been
\* taken up; the subdirectories are taken up one by one in enumeration
\* order, each only after the clip before it has returned to the loop; and
\* "Done" is on the console only after the last one has returned.
C20_EveryClipTakenUp ==
  /\ [](pc \in {"exited", "panicked"} => idx = Len(subdirectories))
  /\ []((\E i \in DOMAIN console : console[i] = "Done")
          => (idx = Len(subdirectories) /\ pc \in {"done", "exited"}))
  /\ [][ idx' # idx
           => /\ pc = "loop"
              /\ idx' = idx + 1
              /\ directory' = subdirectories[idx'] ]_vars

====
